---- MODULE Spec2Model ----
(***************************************************************************)
(* Model of the B-tree node codec, mutation builders, split engine and     *)
(* insert orchestrator of dawgdevv/go_db (package btree), together with    *)
(* the in-memory page store the tree runs on.                              *)
(*                                                                         *)
(* A node buffer is modelled by what it decodes to: kind, key count, the   *)
(* pointer slots, the entries in index order, and the capacity of the      *)
(* byte slice holding it.  Every position is computed from the entry       *)
(* lengths exactly as the codec computes it (16-bit arithmetic), so that   *)
(* encoded sizes, writes past the end of a buffer and reads past it are    *)
(* those of the code.                                                      *)
(*                                                                         *)
(* A key is the byte string made of n copies of the byte b; a value is the *)
(* same.  bytes.Compare on such strings is KeyCmp below.  A 64-bit pointer *)
(* is the pair <<hi, lo>> of its top 16 bits and its low 48 bits.          *)
(***************************************************************************)
EXTENDS Integers, Sequences, FiniteSets, TLC

BTREE_PAGE_SIZE == 4096
BTREE_MAX_KEY_SIZE == 1000
BTREE_MAX_VAL_SIZE == 3000
BNODE_INTERNAL == 1
BNODE_LEAF == 2

U16 == 65536

(* ---- bounds of the model ---- *)
\* Insert calls, and distinct key bytes, of the tree with mixed entry sizes
MaxInserts == 4
NumKeyBytes == 2
\* Insert calls, and distinct keys, of the tree with maximal entries
MaxDeepInserts == 7
NumDeepKeys == 3
\* keys of a Leaf (an Internal node has up to one more), and distinct key
\* bytes, of the nodes a codec or split function is applied to alone
MaxNodeKeys == 4
NumNodeBytes == 5
\* distinct key bytes of the nodes the accessors read back
NumCodecBytes == 3
\* keys of a Leaf (an Internal node has up to one more), and distinct key
\* bytes, of the source nodes the builders are applied to
MaxBuildKeys == 3
NumBuildBytes == 2

\* root, pages, next: the tree's root id and the page store behind it
\* idhi:    the top 16 bits of the 64-bit ids the page store hands out; the
\*          low 48 bits of the k-th id are k
\* failed:  the last call ended in a panic (the process is gone)
\* log:     the page-store calls and root assignments of the last call
\* last:    the arguments of the last call and the state it started from
\* ref:     the map from each key inserted so far to its latest value
\* inp, out: argument and result of a codec or split function applied alone
VARIABLES root, pages, next, idhi, failed, log, last, ref, ninserts, inp, out

vars == <<root, pages, next, idhi, failed, log, last, ref, ninserts, inp, out>>

(***************************************************************************)
(* Byte strings                                                            *)
(***************************************************************************)
Bytes(b, n) == [b |-> b, n |-> n]
EmptyBytes == Bytes(0, 0)
\* the value a read that panics stands for
NoBytes == Bytes(-1, -1)

\* bytes.Compare on runs of one byte: -1, 0 or 1
KeyCmp(a, b) ==
  IF a.n = 0 \/ b.n = 0
    THEN (IF a.n = b.n THEN 0 ELSE IF a.n < b.n THEN -1 ELSE 1)
  ELSE IF a.b # b.b THEN (IF a.b < b.b THEN -1 ELSE 1)
  ELSE IF a.n = b.n THEN 0
  ELSE IF a.n < b.n THEN -1 ELSE 1

(***************************************************************************)
(* Node buffers                                                            *)
(***************************************************************************)
\* make([]byte, cap): a zeroed buffer
MakeBuf(cap) ==
  [btype |-> 0, nkeys |-> 0, ptrs |-> <<>>, keys |-> <<>>, vals |-> <<>>, cap |-> cap]

\* the outcome of an operation that panicked
Panic == MakeBuf(0)

\* pointers: the id of a page of the store, the zero pointer, and the value
\* a read that panics stands for
Ptr(id) == <<idhi, id>>
\* the same for a store whose ids stay below 2^48, as the ids of the test pager
LowPtr(id) == <<0, id>>
NullPtr == <<0, 0>>
BadPtr == <<-1, -1>>

\* the page id a pointer names; -1 for one past every id the store gives out
IdOf(ptr) == IF ptr[1] = idhi THEN ptr[2] ELSE -1

ptrSlotsOf(btype, nkeys) == IF btype = BNODE_INTERNAL THEN nkeys + 1 ELSE nkeys

ptrSlots(node) == ptrSlotsOf(node.btype, node.nkeys)

setHeader(node, btype, nkeys) ==
  IF node = Panic THEN Panic
  ELSE [node EXCEPT !.btype = btype, !.nkeys = nkeys,
                    !.ptrs = [i \in 1..ptrSlotsOf(btype, nkeys) |-> NullPtr],
                    !.keys = <<>>, !.vals = <<>>]

\* NullPtr for a slot that was never written; BadPtr when the read leaves the
\* buffer
getPtr(node, idx) ==
  IF 4 + 8 * idx + 8 > node.cap THEN BadPtr
  ELSE IF idx + 1 \in DOMAIN node.ptrs THEN node.ptrs[idx + 1]
  ELSE NullPtr

setPtr(node, idx, val) ==
  IF node = Panic \/ val = BadPtr THEN Panic
  ELSE IF 4 + 8 * idx + 8 > node.cap THEN Panic
  ELSE IF idx + 1 \in DOMAIN node.ptrs THEN [node EXCEPT !.ptrs[idx + 1] = val]
  ELSE node

RECURSIVE EntryBytes(_, _)
\* bytes taken in the key/value region by the first n entries
EntryBytes(node, n) ==
  IF n = 0 THEN 0
  ELSE EntryBytes(node, n - 1) + 4 + node.keys[n].n + node.vals[n].n

\* the offset of an entry that was written; 0 for entry 0 and for the slot
\* of entry nkeys, which no builder writes
getOffset(node, idx) ==
  IF idx = 0 \/ idx >= Len(node.keys) THEN 0
  ELSE EntryBytes(node, idx) % U16

\* writing offset 0 of entry 0 lands on the two bytes before the offset
\* array, the high bytes of the last pointer slot
setOffset(node, idx, val) ==
  IF node = Panic THEN Panic
  ELSE IF idx = 0 /\ ptrSlots(node) >= 1
    THEN [node EXCEPT !.ptrs[ptrSlots(node)] = <<val, @[2]>>]
  ELSE node

kvPos(node, idx) ==
  (4 + 8 * ptrSlots(node) + 2 * node.nkeys + getOffset(node, idx)) % U16

\* entry idx as the accessors find it: entry 0 again at idx = nkeys
EntryAt(node, idx) ==
  IF idx < Len(node.keys) THEN idx + 1
  ELSE IF Len(node.keys) >= 1 THEN 1 ELSE 0

getKey(node, idx) ==
  LET pos == kvPos(node, idx)
      e == EntryAt(node, idx)
      key == IF e = 0 THEN EmptyBytes ELSE node.keys[e]
  IN IF node = Panic THEN NoBytes
     ELSE IF pos + 2 + key.n > node.cap THEN NoBytes
     ELSE key

\* a read of the value that returns the bytes at the key's place
getVal_KeyBytes(node, idx) == getKey(node, idx)

getVal(node, idx) ==
  LET pos == kvPos(node, idx)
      e == EntryAt(node, idx)
      key == IF e = 0 THEN EmptyBytes ELSE node.keys[e]
      val == IF e = 0 THEN EmptyBytes ELSE node.vals[e]
  IN IF node = Panic THEN NoBytes
     ELSE IF pos + 4 + key.n + val.n > node.cap THEN NoBytes
     ELSE val

\* -1 when reading the last entry's length fields leaves the buffer
nbytes(node) ==
  IF node.nkeys = 0 \/ Len(node.keys) = 0
    THEN 4 + 8 * ptrSlots(node) + 2 * node.nkeys
  ELSE LET lastIdx == node.nkeys - 1
           lastPos == kvPos(node, lastIdx)
           e == EntryAt(node, lastIdx)
       IN IF lastPos + 4 + node.keys[e].n > node.cap THEN -1
          ELSE (lastPos + 4 + node.keys[e].n + node.vals[e].n) % U16

RECURSIVE LookupLoop_HiMinusOne(_, _, _, _)
\* the search with the upper bound moved one too far
LookupLoop_HiMinusOne(node, key, lo, hi) ==
  IF lo < hi
    THEN LET mid == lo + ((hi - lo) \div 2)
             k == getKey(node, mid)
             cmp == KeyCmp(k, key)
         IN IF k = NoBytes THEN <<-1, FALSE>>
            ELSE IF cmp < 0 THEN LookupLoop_HiMinusOne(node, key, mid + 1, hi)
            ELSE IF cmp > 0 THEN LookupLoop_HiMinusOne(node, key, lo, mid - 1)
            ELSE <<mid, TRUE>>
  ELSE <<lo, FALSE>>

RECURSIVE LookupLoop(_, _, _, _)
LookupLoop(node, key, lo, hi) ==
  IF lo < hi
    THEN LET mid == lo + ((hi - lo) \div 2)
             k == getKey(node, mid)
             cmp == KeyCmp(k, key)
         IN IF k = NoBytes THEN <<-1, FALSE>>
            ELSE IF cmp < 0 THEN LookupLoop(node, key, mid + 1, hi)
            ELSE IF cmp > 0 THEN LookupLoop(node, key, lo, mid)
            ELSE <<mid, TRUE>>
  ELSE <<lo, FALSE>>

\* <<index, found>>; index -1 when a key read panicked
nodeLookup(node, key) ==
  IF node.nkeys = 0 THEN <<0, FALSE>>
  ELSE LookupLoop(node, key, 0, node.nkeys)

(***************************************************************************)
(* Mutation builders                                                       *)
(***************************************************************************)
\* an entry written without its value bytes
PutEntry_NoValue(node, idx, key, val) ==
  IF idx = Len(node.keys)
    THEN [node EXCEPT !.keys = Append(@, key), !.vals = Append(@, EmptyBytes)]
  ELSE IF idx < Len(node.keys)
    THEN [node EXCEPT !.keys[idx + 1] = key, !.vals[idx + 1] = EmptyBytes]
  ELSE Panic

\* the entry written at idx; a value that does not fit is cut by copy(), the
\* length field keeps the full length
PutEntry(node, idx, key, val) ==
  IF idx = Len(node.keys)
    THEN [node EXCEPT !.keys = Append(@, key), !.vals = Append(@, val)]
  ELSE IF idx < Len(node.keys)
    THEN [node EXCEPT !.keys[idx + 1] = key, !.vals[idx + 1] = val]
  ELSE Panic

\* offset of the entry after idx - 1, from the lengths found in the buffer
NextOffset(node, idx) ==
  IF idx = 0 THEN 0 ELSE EntryBytes(node, idx) % U16

leafAppendKv(new, idx, key, val) ==
  IF new = Panic \/ key = NoBytes \/ val = NoBytes THEN Panic
  ELSE IF new.btype # BNODE_LEAF THEN Panic
  ELSE LET n1 == setPtr(new, idx, NullPtr)
           offset == NextOffset(new, idx)
           n2 == setOffset(n1, idx, offset)
           pos == (4 + 8 * ptrSlots(new) + 2 * new.nkeys + offset) % U16
       IN IF n1 = Panic \/ idx > Len(new.keys) THEN Panic
          ELSE IF pos + 2 > new.cap THEN Panic
          ELSE IF pos + 4 + key.n > new.cap THEN Panic
          ELSE PutEntry(n2, idx, key, val)

internalAppendKv(new, idx, key) ==
  IF new = Panic \/ key = NoBytes THEN Panic
  ELSE IF new.btype # BNODE_INTERNAL THEN Panic
  ELSE LET offset == NextOffset(new, idx)
           n2 == setOffset(new, idx, offset)
           pos == (4 + 8 * ptrSlots(new) + 2 * new.nkeys + offset) % U16
       IN IF idx > Len(new.keys) THEN Panic
          ELSE IF pos + 2 > new.cap THEN Panic
          ELSE IF pos + 4 + key.n > new.cap THEN Panic
          ELSE PutEntry(n2, idx, key, EmptyBytes)

RECURSIVE leafAppendRange(_, _, _, _, _)
\* entries srcOld .. srcOld+n-1 of old appended at dstNew .. dstNew+n-1
leafAppendRange(new, old, dstNew, srcOld, n) ==
  IF new = Panic \/ old = Panic THEN Panic
  ELSE IF ~(new.btype = BNODE_LEAF /\ old.btype = BNODE_LEAF) THEN Panic
  ELSE IF n = 0 THEN new
  ELSE LET prev == leafAppendRange(new, old, dstNew, srcOld, n - 1)
           i == n - 1
       IN leafAppendKv(prev, dstNew + i, getKey(old, srcOld + i), getVal(old, srcOld + i))

RECURSIVE internalAppendLoop(_, _, _, _, _)
internalAppendLoop(new, old, dstNew, srcOld, n) ==
  IF n = 0 THEN new
  ELSE LET prev == internalAppendLoop(new, old, dstNew, srcOld, n - 1)
           i == n - 1
       IN internalAppendKv(setPtr(prev, dstNew + i, getPtr(old, srcOld + i)),
                           dstNew + i, getKey(old, srcOld + i))

internalAppendRange(new, old, dstNew, srcOld, n) ==
  IF new = Panic \/ old = Panic THEN Panic
  ELSE IF ~(new.btype = BNODE_INTERNAL /\ old.btype = BNODE_INTERNAL) THEN Panic
  ELSE setPtr(internalAppendLoop(new, old, dstNew, srcOld, n),
              dstNew + n, getPtr(old, srcOld + n))

\* an update that copies every entry of the source, entry idx included
leafUpdate_KeepsOld(new, old, idx, key, val) ==
  leafAppendRange(setHeader(new, BNODE_LEAF, old.nkeys), old, 0, 0, old.nkeys)

leafUpdate(new, old, idx, key, val) ==
  LET Checked(n3) ==
        IF n3 = Panic THEN Panic
        ELSE IF nbytes(n3) < 0 \/ nbytes(n3) > n3.cap THEN Panic
        ELSE n3
      Rest(n2) ==
        IF idx + 1 < old.nkeys
          THEN leafAppendRange(n2, old, idx + 1, idx + 1, old.nkeys - (idx + 1))
          ELSE n2
      n0 == setHeader(new, BNODE_LEAF, old.nkeys)
      n1 == leafAppendRange(n0, old, 0, 0, idx)
  IN IF old.btype # BNODE_LEAF \/ ~(idx < old.nkeys) THEN Panic
     ELSE Checked(Rest(leafAppendKv(n1, idx, key, val)))

leafInsert(new, old, idx, key, val) ==
  LET Checked(n3) ==
        IF n3 = Panic THEN Panic
        ELSE IF nbytes(n3) < 0 \/ nbytes(n3) > n3.cap THEN Panic
        ELSE n3
      Rest(n2) ==
        IF idx < old.nkeys
          THEN leafAppendRange(n2, old, idx + 1, idx, old.nkeys - idx)
          ELSE n2
      n0 == setHeader(new, BNODE_LEAF, old.nkeys + 1)
      n1 == leafAppendRange(n0, old, 0, 0, idx)
  IN IF old.btype # BNODE_LEAF \/ ~(idx <= old.nkeys) THEN Panic
     ELSE Checked(Rest(leafAppendKv(n1, idx, key, val)))

nodeReplace2kid(new, old, idx, ptr0, key1, ptr1) ==
  LET Rest(n3) ==
        IF idx + 1 < old.nkeys
          THEN internalAppendRange(n3, old, idx + 2, idx + 1, old.nkeys - (idx + 1))
          ELSE n3
      n0 == setHeader(new, BNODE_INTERNAL, old.nkeys + 1)
      n1 == internalAppendRange(n0, old, 0, 0, idx)
      n2 == internalAppendKv(setPtr(n1, idx, ptr0), idx, key1)
  IN IF old.btype # BNODE_INTERNAL \/ ~(idx < old.nkeys) THEN Panic
     ELSE Rest(internalAppendKv(setPtr(n2, idx + 1, ptr1), idx + 1, getKey(old, idx)))

nodeReplace3kid(new, old, idx, ptr1, key1, ptr2, key2, ptr3) ==
  LET Checked(n5) ==
        IF n5 = Panic THEN Panic
        ELSE IF nbytes(n5) < 0 \/ nbytes(n5) > BTREE_PAGE_SIZE THEN Panic
        ELSE n5
      Rest(n4) ==
        IF idx + 1 < old.nkeys
          THEN internalAppendRange(n4, old, idx + 3, idx + 1, old.nkeys - (idx + 1))
          ELSE n4
      n0 == setHeader(new, BNODE_INTERNAL, old.nkeys + 2)
      n1 == internalAppendRange(n0, old, 0, 0, idx)
      n2 == internalAppendKv(setPtr(n1, idx, ptr1), idx, key1)
      n3 == internalAppendKv(setPtr(n2, idx + 1, ptr2), idx + 1, key2)
  IN IF old.btype # BNODE_INTERNAL THEN Panic
     ELSE Checked(Rest(internalAppendKv(setPtr(n3, idx + 2, ptr3), idx + 2,
                                         getKey(old, idx))))

(***************************************************************************)
(* Split engine                                                            *)
(***************************************************************************)
calcRightBytes(old, split) ==
  LET nright == old.nkeys - split
      kvDataSize == (nbytes(old) - kvPos(old, split)) % U16
      slots == IF old.btype = BNODE_INTERNAL THEN nright + 1 ELSE nright
  IN (4 + 8 * slots + 2 * nright + kvDataSize) % U16

RECURSIVE SplitPoint(_, _)
\* the loop that moves the split point right while the right part is too big
SplitPoint(old, nleft) ==
  IF calcRightBytes(old, nleft) > BTREE_PAGE_SIZE /\ nleft < old.nkeys - 1
    THEN SplitPoint(old, nleft + 1)
    ELSE nleft

\* <<left, right>>; <<Panic, Panic>> when an assertion or a slice bound fails
nodeSplit2(left, right, old) ==
  LET Built(l1, r1) ==
        IF l1 = Panic \/ r1 = Panic THEN <<Panic, Panic>>
        ELSE IF nbytes(r1) < 0 \/ nbytes(r1) > BTREE_PAGE_SIZE THEN <<Panic, Panic>>
        ELSE <<l1, r1>>
      SplitAt(nleft) ==
        IF ~(nleft >= 1) \/ ~(nleft < old.nkeys) THEN <<Panic, Panic>>
        ELSE IF old.btype = BNODE_LEAF
          THEN Built(leafAppendRange(setHeader(left, old.btype, nleft), old, 0, 0, nleft),
                     leafAppendRange(setHeader(right, old.btype, old.nkeys - nleft), old,
                                     0, nleft, old.nkeys - nleft))
        ELSE Built(internalAppendRange(setHeader(left, old.btype, nleft), old, 0, 0, nleft),
                   internalAppendRange(setHeader(right, old.btype, old.nkeys - nleft), old,
                                       0, nleft, old.nkeys - nleft))
  IN IF old = Panic \/ ~(old.nkeys >= 2) \/ nbytes(old) < 0 THEN <<Panic, Panic>>
     ELSE SplitAt(SplitPoint(old, old.nkeys \div 2))

\* a split that takes every node to fit
nodeSplit3_NeverSplits(old) == [n |-> 1, nodes |-> <<old>>]

\* [n, nodes]; n = 0 when the split panicked
nodeSplit3(old) ==
  LET Second(right, t) ==
        IF t[1] = Panic THEN [n |-> 0, nodes |-> <<>>]
        ELSE IF nbytes(t[1]) < 0 \/ nbytes(t[1]) > BTREE_PAGE_SIZE
          THEN [n |-> 0, nodes |-> <<>>]
        ELSE [n |-> 3, nodes |-> <<t[1], t[2], right>>]
      First(s) ==
        IF s[1] = Panic \/ nbytes(s[1]) < 0 THEN [n |-> 0, nodes |-> <<>>]
        ELSE IF nbytes(s[1]) <= BTREE_PAGE_SIZE THEN [n |-> 2, nodes |-> <<s[1], s[2]>>]
        ELSE Second(s[2], nodeSplit2(MakeBuf(BTREE_PAGE_SIZE), MakeBuf(BTREE_PAGE_SIZE), s[1]))
  IN IF old = Panic \/ nbytes(old) < 0 THEN [n |-> 0, nodes |-> <<>>]
     ELSE IF nbytes(old) <= BTREE_PAGE_SIZE THEN [n |-> 1, nodes |-> <<old>>]
     ELSE First(nodeSplit2(MakeBuf(BTREE_PAGE_SIZE), MakeBuf(BTREE_PAGE_SIZE), old))

(***************************************************************************)
(* Page store: the in-memory pager the tree's get/new/del are bound to     *)
(***************************************************************************)
\* a store is [pages, next, log]; log lists the calls made on it
PagerNew(st, data) ==
  [st EXCEPT !.pages = [i \in DOMAIN st.pages \cup {st.next} |->
                          IF i = st.next THEN data ELSE st.pages[i]],
             !.next = st.next + 1,
             !.log = Append(st.log, <<"new", st.next>>)]

\* the page, or Panic for an id the store does not hold
PagerGet(st, id) == IF id \in DOMAIN st.pages THEN st.pages[id] ELSE Panic

LogGet(st, id) == [st EXCEPT !.log = Append(st.log, <<"get", id>>)]

\* a del that records the call and keeps the page
PagerDel_KeepsPage(st, id) == [st EXCEPT !.log = Append(st.log, <<"del", id>>)]

\* a del that frees the page with the next id as well
PagerDel_AndNext(st, id) ==
  [st EXCEPT !.pages = [i \in DOMAIN st.pages \ {id, id + 1} |-> st.pages[i]],
             !.log = Append(st.log, <<"del", id>>)]

\* a del that is made twice
PagerDel_Twice(st, id) ==
  [st EXCEPT !.pages = [i \in DOMAIN st.pages \ {id} |-> st.pages[i]],
             !.log = Append(Append(st.log, <<"del", id>>), <<"del", id>>)]

PagerDel(st, id) ==
  [st EXCEPT !.pages = [i \in DOMAIN st.pages \ {id} |-> st.pages[i]],
             !.log = Append(st.log, <<"del", id>>)]

(***************************************************************************)
(* Insert orchestrator                                                     *)
(***************************************************************************)
Failed(st) == [st |-> st, node |-> Panic]

\* the parent stored again in place of its rebuilt child
ReplaceOneKid_StoresParent(st, new, node, idx, kid) ==
  LET n0 == setHeader(new, BNODE_INTERNAL, node.nkeys)
      n1 == internalAppendRange(n0, node, 0, 0, node.nkeys)
      st3 == PagerNew(st, node)
  IN IF n1 = Panic THEN Failed(st)
     ELSE [st |-> st3, node |-> setPtr(n1, idx, Ptr(st.next))]

\* the parent copied with pointer idx left naming the freed child
ReplaceOneKid_KeepsPtr(st, new, node, idx, kid) ==
  LET n0 == setHeader(new, BNODE_INTERNAL, node.nkeys)
      n1 == internalAppendRange(n0, node, 0, 0, node.nkeys)
      st3 == PagerNew(st, kid)
  IN IF n1 = Panic THEN Failed(st)
     ELSE [st |-> st3, node |-> n1]

\* case 1 of nodeInsert: the child did not split; the parent is copied and
\* pointer idx set to the page allocated for the rebuilt child
ReplaceOneKid(st, new, node, idx, kid) ==
  LET n0 == setHeader(new, BNODE_INTERNAL, node.nkeys)
      n1 == internalAppendRange(n0, node, 0, 0, node.nkeys)
      st3 == PagerNew(st, kid)
  IN IF n1 = Panic THEN Failed(st)
     ELSE [st |-> st3, node |-> setPtr(n1, idx, Ptr(st.next))]

RECURSIVE treeInsert(_, _, _, _)
RECURSIVE nodeInsert(_, _, _, _, _, _, _)

\* [st, node]: the store after the calls made, and the rebuilt node (Panic
\* when the call panicked)
nodeInsert(st, new, node, idx, key, val, found) ==
  LET \* the switch on nsplit, the child's page freed
      Replace(st2, sp) ==
        IF sp.n = 1 THEN ReplaceOneKid(st2, new, node, idx, sp.nodes[1])
        ELSE IF sp.n = 2 THEN
          LET st3 == PagerNew(st2, sp.nodes[1])
              key1 == getKey(sp.nodes[2], 0)
              st4 == PagerNew(st3, sp.nodes[2])
          IN IF key1 = NoBytes THEN Failed(st3)
             ELSE [st |-> st4,
                   node |-> nodeReplace2kid(new, node, idx, Ptr(st2.next), key1,
                                            Ptr(st3.next))]
        ELSE
          LET st3 == PagerNew(st2, sp.nodes[1])
              key1 == getKey(sp.nodes[2], 0)
              st4 == PagerNew(st3, sp.nodes[2])
              key2 == getKey(sp.nodes[3], 0)
              st5 == PagerNew(st4, sp.nodes[3])
          IN IF key1 = NoBytes THEN Failed(st3)
             ELSE IF key2 = NoBytes THEN Failed(st4)
             ELSE [st |-> st5,
                   node |-> nodeReplace3kid(new, node, idx, Ptr(st2.next), key1,
                                            Ptr(st3.next), key2, Ptr(st4.next))]
      \* the rebuilt child split, then its old page freed
      Split(kptr, r, sp) ==
        IF r.node = Panic \/ sp.n = 0 THEN Failed(r.st)
        ELSE Replace(PagerDel(r.st, kptr), sp)
      \* the child loaded and rebuilt
      Descend(kptr, r) ==
        IF getPtr(node, idx) = BadPtr THEN Failed(st)
        ELSE IF PagerGet(st, kptr) = Panic THEN Failed(LogGet(st, kptr))
        ELSE Split(kptr, r, nodeSplit3(r.node))
  IN IF node.btype # BNODE_INTERNAL \/ ~(idx <= node.nkeys) THEN Failed(st)
     ELSE Descend(IdOf(getPtr(node, idx)),
                  treeInsert(LogGet(st, IdOf(getPtr(node, idx))),
                             PagerGet(st, IdOf(getPtr(node, idx))), key, val))

treeInsert(st, node, key, val) ==
  LET new == MakeBuf(2 * BTREE_PAGE_SIZE)
      Place(idx, found) ==
        IF idx < 0 THEN Failed(st)
        ELSE IF node.btype = BNODE_LEAF
          THEN [st |-> st,
                node |-> IF found THEN leafUpdate(new, node, idx, key, val)
                                  ELSE leafInsert(new, node, idx, key, val)]
        ELSE IF node.btype = BNODE_INTERNAL
          THEN nodeInsert(st, new, node, idx, key, val, found)
        ELSE Failed(st)
  IN Place(nodeLookup(node, key)[1], nodeLookup(node, key)[2])

RECURSIVE NewAll(_, _, _)
\* the store after allocating nodes[1..n] in order
NewAll(st, nodes, n) ==
  IF n = 0 THEN st ELSE PagerNew(NewAll(st, nodes, n - 1), nodes[n])

RECURSIVE RootKeys(_, _, _)
\* the separator keys of a new root appended in order
RootKeys(rt, nodes, n) ==
  IF n = 0 THEN rt
  ELSE internalAppendKv(RootKeys(rt, nodes, n - 1), n - 1, getKey(nodes[n + 1], 0))

\* a new root whose pointers are left unset
RootPtrs_Unset(rt, first, n) == rt

RECURSIVE RootPtrs(_, _, _)
\* pointer i of a new root set to the i-th id allocated from first on
RootPtrs(rt, first, n) ==
  IF n = 0 THEN rt ELSE setPtr(RootPtrs(rt, first, n - 1), n - 1, Ptr(first + n - 1))

\* a weaker check: a key one byte too long passes
ValidArgs_OffByOne(key, val) ==
  /\ key.n > 0 /\ key.n <= BTREE_MAX_KEY_SIZE + 1
  /\ val.n <= BTREE_MAX_VAL_SIZE

\* the two assertions Insert starts with
ValidArgs(key, val) ==
  /\ key.n > 0 /\ key.n <= BTREE_MAX_KEY_SIZE
  /\ val.n <= BTREE_MAX_VAL_SIZE

\* an assignment to tree.root that records itself twice
SetRoot_Twice(st, id) ==
  [st EXCEPT !.log = Append(Append(st.log, <<"root", id>>), <<"root", id>>)]

\* an assignment to tree.root, recorded among the calls on the store
SetRoot(st, id) == [st EXCEPT !.log = Append(st.log, <<"root", id>>)]

\* the result of one call: [root, st, failed, nsplit]
Insert(rt, st, key, val) ==
  LET \* the rebuilt root split and stored
      Grown(rt0, r, sp) ==
        IF r.node = Panic \/ sp.n = 0
          THEN [root |-> rt0, st |-> r.st, failed |-> TRUE, nsplit |-> 0]
        ELSE IF sp.n > 1 THEN
          LET rb0 == setHeader(MakeBuf(BTREE_PAGE_SIZE), BNODE_INTERNAL, sp.n - 1)
              st3 == NewAll(r.st, sp.nodes, sp.n)
              rb1 == RootPtrs(rb0, r.st.next, sp.n)
              rb2 == RootKeys(rb1, sp.nodes, sp.n - 1)
              st4 == PagerNew(st3, rb2)
          IN IF rb2 = Panic
               THEN [root |-> rt0, st |-> st3, failed |-> TRUE, nsplit |-> sp.n]
             ELSE [root |-> st3.next,
                   st |-> SetRoot(st4, st3.next),
                   failed |-> FALSE, nsplit |-> sp.n]
        ELSE
          LET st3 == PagerNew(r.st, sp.nodes[1])
          IN [root |-> r.st.next,
              st |-> SetRoot(st3, r.st.next),
              failed |-> FALSE, nsplit |-> 1]
      Rebuilt(rt0, r) == Grown(rt0, r, nodeSplit3(r.node))
      \* the root loaded and freed, then rebuilt
      Load(st0, rt0) ==
        LET node == PagerGet(st0, rt0)
            st1 == LogGet(st0, rt0)
            st2 == PagerDel(st1, rt0)
        IN IF node = Panic
             THEN [root |-> rt0, st |-> st1, failed |-> TRUE, nsplit |-> 0]
           ELSE Rebuilt(rt0, treeInsert(st2, node, key, val))
      empty == setHeader(MakeBuf(BTREE_PAGE_SIZE), BNODE_LEAF, 0)
  IN IF ~ValidArgs(key, val)
       THEN [root |-> rt, st |-> st, failed |-> TRUE, nsplit |-> 0]
     ELSE IF rt = 0
       THEN Load(SetRoot(PagerNew(st, empty), st.next), st.next)
     ELSE Load(st, rt)

(***************************************************************************)
(* The tree under a sequence of Insert calls                               *)
(***************************************************************************)
KeyLens == {1, BTREE_MAX_KEY_SIZE}
ValLens == {0, BTREE_MAX_VAL_SIZE}

ValidKeys == {Bytes(b, n) : b \in 1..NumKeyBytes, n \in KeyLens}
ValidVals == {IF n = 0 THEN EmptyBytes ELSE Bytes(1, n) : n \in ValLens}

\* arguments Insert rejects: empty key, key too long, value too long
BadKeys == {EmptyBytes, Bytes(1, BTREE_MAX_KEY_SIZE + 1)}
BadVals == {Bytes(1, BTREE_MAX_VAL_SIZE + 1)}

InsertArgs ==
  (ValidKeys \X ValidVals) \cup (BadKeys \X ValidVals) \cup (ValidKeys \X BadVals)

NoCall == [key |-> EmptyBytes, val |-> EmptyBytes, root |-> 0, pages |-> <<>>,
           nsplit |-> 0, done |-> FALSE]

\* the in-memory pager counts its ids from 1; a store may as well hand out
\* ids from 2^48 on
StoreHighBits == {0, 1}

Init ==
  /\ root = 0
  /\ pages = <<>>
  /\ next = 1
  /\ idhi \in StoreHighBits
  /\ failed = FALSE
  /\ log = <<>>
  /\ last = NoCall
  /\ ref = <<>>
  /\ ninserts = 0
  /\ inp = <<>>
  /\ out = <<>>

\* one call of Insert on the tree, the max-th call being the last
InsertStep(key, val, max) ==
  LET Result(r) ==
        /\ root' = r.root
        /\ pages' = r.st.pages
        /\ next' = r.st.next
        /\ log' = r.st.log
        /\ failed' = r.failed
        /\ last' = [key |-> key, val |-> val, root |-> root, pages |-> pages,
                    nsplit |-> r.nsplit, done |-> TRUE]
        /\ ref' = IF r.failed THEN ref
                  ELSE [k \in DOMAIN ref \cup {key} |-> IF k = key THEN val ELSE ref[k]]
  IN /\ ~failed
     /\ ninserts < max
     /\ Result(Insert(root, [pages |-> pages, next |-> next, log |-> <<>>], key, val))
     /\ ninserts' = ninserts + 1
     /\ UNCHANGED <<idhi, inp, out>>

DoInsert(key, val) == InsertStep(key, val, MaxInserts)

Next == \E a \in InsertArgs : DoInsert(a[1], a[2])

Spec == Init /\ [][Next]_vars

(***************************************************************************)
(* The tree under Insert calls with maximal keys and values: every leaf    *)
(* holds one entry and an internal node four keys, so that internal nodes  *)
(* split and the tree grows to three levels.                               *)
(***************************************************************************)
DeepArgs ==
  {<<Bytes(b, BTREE_MAX_KEY_SIZE), Bytes(1, BTREE_MAX_VAL_SIZE)>> : b \in 1..NumDeepKeys}

DeepInsert(key, val) == InsertStep(key, val, MaxDeepInserts)

NextDeep == \E a \in DeepArgs : DeepInsert(a[1], a[2])

SpecDeep == Init /\ [][NextDeep]_vars

(***************************************************************************)
(* What a reader of the tree sees                                          *)
(***************************************************************************)
RECURSIVE SeqSum(_, _)
\* concatenation of f[1] .. f[n]
SeqSum(f, n) == IF n = 0 THEN <<>> ELSE SeqSum(f, n - 1) \o f[n]

RECURSIVE LeafEntries(_, _)
\* the <<key, value>> entries of the leaves reachable from page id, children
\* in index order; a pointer that names no live page contributes nothing
LeafEntries(pg, id) ==
  IF id \notin DOMAIN pg THEN <<>>
  ELSE LET node == pg[id]
       IN IF node.btype = BNODE_LEAF
            THEN [i \in 1..node.nkeys |-> <<getKey(node, i - 1), getVal(node, i - 1)>>]
            ELSE SeqSum([i \in 1..(node.nkeys + 1) |->
                           LeafEntries(pg, IdOf(getPtr(node, i - 1)))], node.nkeys + 1)

RECURSIVE Reach(_, _)
\* the live pages reachable from page id
Reach(pg, id) ==
  IF id \notin DOMAIN pg THEN {}
  ELSE LET node == pg[id]
       IN IF node.btype = BNODE_LEAF THEN {id}
          ELSE {id} \cup UNION {Reach(pg, IdOf(getPtr(node, i))) : i \in 0..node.nkeys}

RECURSIVE LeafDepths(_, _)
\* the numbers of internal nodes on the paths from page id to a leaf
LeafDepths(pg, id) ==
  IF id \notin DOMAIN pg THEN {}
  ELSE LET node == pg[id]
       IN IF node.btype = BNODE_LEAF THEN {0}
          ELSE {d + 1 : d \in UNION {LeafDepths(pg, IdOf(getPtr(node, i))) : i \in 0..node.nkeys}}

KeysOf(entries) == {entries[i][1] : i \in 1..Len(entries)}

Completed == last.done /\ ~failed

TreeEntries == LeafEntries(pages, root)
PrevEntries == LeafEntries(last.pages, last.root)

(***************************************************************************)
(* C1  After any sequence of Insert calls with valid sizes, the leaf       *)
(* entries reachable from the root are exactly the pairs of the map from   *)
(* each inserted key to the value of its latest Insert: none missing, none *)
(* stored twice, none extra.                                               *)
(***************************************************************************)
C1_LeavesEqualMap ==
  Completed =>
    /\ {TreeEntries[i] : i \in 1..Len(TreeEntries)} = {<<k, ref[k]>> : k \in DOMAIN ref}
    /\ Len(TreeEntries) = Cardinality(DOMAIN ref)

(***************************************************************************)
(* C2  After any sequence of valid Insert calls, the leaves read in child  *)
(* order and entry order give strictly increasing keys.                    *)
(***************************************************************************)
C2_TraversalStrictlyIncreasing ==
  Completed =>
    \A i \in 1..(Len(TreeEntries) - 1) :
      KeyCmp(TreeEntries[i][1], TreeEntries[i + 1][1]) < 0

(***************************************************************************)
(* C3  Insert(k, v2) on a tree that already holds k keeps the number of    *)
(* leaf entries and leaves one entry for k, carrying v2.                   *)
(***************************************************************************)
C3_UpdateKeepsCount ==
  (Completed /\ last.key \in KeysOf(PrevEntries)) =>
    /\ Len(TreeEntries) = Len(PrevEntries)
    /\ Cardinality({i \in 1..Len(TreeEntries) : TreeEntries[i][1] = last.key}) = 1
    /\ \A i \in 1..Len(TreeEntries) :
         TreeEntries[i][1] = last.key => TreeEntries[i][2] = last.val


(***************************************************************************)
(* C4  After every completed Insert, in every internal node reachable from *)
(* the root each of the count+1 pointers names a live page, every key      *)
(* under child i is smaller than key i, and key i is the smallest key      *)
(* under child i+1.                                                        *)
(***************************************************************************)
ChildKeys(node, i) == KeysOf(LeafEntries(pages, IdOf(getPtr(node, i))))

InternalOrdered(node) ==
  /\ \A i \in 0..node.nkeys : IdOf(getPtr(node, i)) \in DOMAIN pages
  /\ \A i \in 0..(node.nkeys - 1) :
       /\ \A k \in ChildKeys(node, i) : KeyCmp(k, getKey(node, i)) < 0
       /\ getKey(node, i) \in ChildKeys(node, i + 1)
       /\ \A k \in ChildKeys(node, i + 1) : KeyCmp(k, getKey(node, i)) >= 0

C4_SeparatorsBoundChildren ==
  Completed =>
    \A id \in Reach(pages, root) :
      pages[id].btype = BNODE_INTERNAL => InternalOrdered(pages[id])

(***************************************************************************)
(* C5  After every completed Insert, every live page reachable from the    *)
(* root decodes to a node of at most 4096 bytes.                           *)
(***************************************************************************)
C5_ReachablePagesFit ==
  Completed =>
    \A id \in Reach(pages, root) :
      nbytes(pages[id]) >= 0 /\ nbytes(pages[id]) <= BTREE_PAGE_SIZE

\* a three-level tree whose root was split by the last call and that holds
\* a leaf filled to 4018 bytes
C5_Witness ==
  /\ Completed
  /\ last.nsplit = 2
  /\ LeafDepths(pages, root) = {2}
  /\ \E id \in Reach(pages, root) :
       pages[id].btype = BNODE_LEAF /\ nbytes(pages[id]) = 4018

(***************************************************************************)
(* C6  After every completed Insert, every path from the root to a leaf    *)
(* passes through the same number of internal nodes.                       *)
(***************************************************************************)
C6_LeavesAtEqualDepth ==
  Completed => Cardinality(LeafDepths(pages, root)) <= 1

\* a three-level tree with at least two internal nodes below the root
C6_Witness ==
  /\ Completed
  /\ LeafDepths(pages, root) = {2}
  /\ Cardinality({id \in Reach(pages, root) : pages[id].btype = BNODE_INTERNAL}) >= 3

BadArgs(key, val) ==
  key.n = 0 \/ key.n > BTREE_MAX_KEY_SIZE \/ val.n > BTREE_MAX_VAL_SIZE

C8_BadArgsRejectedFirst ==
  (last.done /\ BadArgs(last.key, last.val)) =>
    /\ failed
    /\ log = <<>>
    /\ root = last.root
    /\ pages = last.pages

\* a key of 1001 bytes offered to a tree that has an internal root
C8_Witness ==
  /\ failed
  /\ last.done
  /\ last.key.n = BTREE_MAX_KEY_SIZE + 1
  /\ root \in DOMAIN pages
  /\ pages[root].btype = BNODE_INTERNAL

(***************************************************************************)
(* Codec and split functions applied alone to a node                       *)
(***************************************************************************)
RECURSIVE SortedSeq(_)
\* the keys of S in increasing order
SortedSeq(S) ==
  IF S = {} THEN <<>>
  ELSE LET m == CHOOSE x \in S : \A y \in S : KeyCmp(x, y) <= 0
       IN <<m>> \o SortedSeq(S \ {m})

RECURSIVE LeafAppendAll(_, _, _)
LeafAppendAll(node, entries, n) ==
  IF n = 0 THEN node
  ELSE leafAppendKv(LeafAppendAll(node, entries, n - 1), n - 1, entries[n][1], entries[n][2])

\* the Leaf the builders write into a scratch buffer for these entries
MakeLeaf(entries) ==
  LeafAppendAll(setHeader(MakeBuf(2 * BTREE_PAGE_SIZE), BNODE_LEAF, Len(entries)),
                entries, Len(entries))

RECURSIVE InternalAppendAll(_, _, _)
InternalAppendAll(node, keys, n) ==
  IF n = 0 THEN node
  ELSE internalAppendKv(setPtr(InternalAppendAll(node, keys, n - 1), n - 1, LowPtr(n)),
                        n - 1, keys[n])

\* the Internal node the builders write for these keys, child i being page i+1
MakeInternal(keys) ==
  setPtr(InternalAppendAll(setHeader(MakeBuf(2 * BTREE_PAGE_SIZE), BNODE_INTERNAL, Len(keys)),
                           keys, Len(keys)),
         Len(keys), LowPtr(Len(keys) + 1))

NodeKeys == {Bytes(b, n) : b \in 1..NumNodeBytes, n \in KeyLens}

\* the strictly increasing key sequences of at most max keys
KeySeqs(max) == {SortedSeq(S) : S \in {T \in SUBSET NodeKeys : Cardinality(T) <= max}}

\* every choice of a value for each key of ks
EntrySeqs(ks) ==
  {[i \in 1..Len(ks) |-> <<ks[i], vs[i]>>] : vs \in [1..Len(ks) -> ValidVals]}

NodeEntries(node) == [i \in 1..node.nkeys |-> <<getKey(node, i - 1), getVal(node, i - 1)>>]

NoResult == <<>>

InitAlone(inputs) ==
  /\ root = 0
  /\ pages = <<>>
  /\ next = 1
  /\ idhi = 0
  /\ failed = FALSE
  /\ log = <<>>
  /\ last = NoCall
  /\ ref = <<>>
  /\ ninserts = 0
  /\ inp \in inputs
  /\ out = NoResult

(* ---- nodeLookup ---- *)
\* every Internal node and every Leaf with strictly increasing keys, with
\* every search key
InitLookup ==
  InitAlone({[node |-> nd, key |-> k] :
               nd \in {MakeInternal(ks) : ks \in KeySeqs(MaxNodeKeys + 1)}
                        \cup {MakeLeaf([i \in 1..Len(ks) |-> <<ks[i], EmptyBytes>>]) :
                                 ks \in KeySeqs(MaxNodeKeys)},
               k \in NodeKeys})

ApplyLookup ==
  /\ out = NoResult
  /\ out' = nodeLookup(inp.node, inp.key)
  /\ UNCHANGED <<root, pages, next, idhi, failed, log, last, ref, ninserts, inp>>

SpecLookup == InitLookup /\ [][ApplyLookup]_vars

(***************************************************************************)
(* C9  On a node with strictly increasing keys, lookup returns (i, true)   *)
(* with key i equal to the search key when the key is present, and         *)
(* otherwise (i, false) with i the number of keys smaller than the search  *)
(* key; on a node of count 0 it returns (0, false).                        *)
(***************************************************************************)
SmallerKeys(node, key) ==
  Cardinality({i \in 0..(node.nkeys - 1) : KeyCmp(getKey(node, i), key) < 0})

C9_LookupIndex ==
  out # NoResult =>
    /\ IF \E i \in 0..(inp.node.nkeys - 1) : getKey(inp.node, i) = inp.key
         THEN /\ out[2] = TRUE
              /\ out[1] \in 0..(inp.node.nkeys - 1)
              /\ getKey(inp.node, out[1]) = inp.key
         ELSE out = <<SmallerKeys(inp.node, inp.key), FALSE>>
    /\ inp.node.nkeys = 0 => out = <<0, FALSE>>

\* an absent key that belongs in the middle of a node of four keys
C9_Witness ==
  /\ out = <<2, FALSE>>
  /\ inp.node.nkeys = 4

(* ---- nodeSplit3 ---- *)
\* the size of node without its largest entry
WithoutLargest(node) ==
  LET big == CHOOSE i \in 1..node.nkeys :
               \A j \in 1..node.nkeys :
                 node.keys[j].n + node.vals[j].n <= node.keys[i].n + node.vals[i].n
  IN nbytes(node) - 14 - node.keys[big].n - node.vals[big].n

\* a node a builder leaves in its scratch buffer: it fits the buffer, and it
\* is a page-sized node plus at most one entry
IsScratch(node) ==
  /\ node # Panic
  /\ nbytes(node) <= 2 * BTREE_PAGE_SIZE
  /\ node.nkeys >= 1
  /\ nbytes(node) > BTREE_PAGE_SIZE => WithoutLargest(node) <= BTREE_PAGE_SIZE

\* every scratch Leaf and scratch Internal node with strictly increasing keys
InitSplit ==
  InitAlone({[old |-> nd] :
               nd \in {x \in UNION {{MakeLeaf(es) : es \in EntrySeqs(ks)} :
                                      ks \in KeySeqs(MaxNodeKeys)}
                               \cup {MakeInternal(ks) : ks \in KeySeqs(MaxNodeKeys + 1)} :
                          IsScratch(x)}})

ApplySplit3 ==
  /\ out = NoResult
  /\ out' = nodeSplit3(inp.old)
  /\ UNCHANGED <<root, pages, next, idhi, failed, log, last, ref, ninserts, inp>>

SpecSplit == InitSplit /\ [][ApplySplit3]_vars

(***************************************************************************)
(* C10  For every scratch node old, split3(old) returns n in {1,2,3}: old  *)
(* itself when it fits a page, and otherwise nodes of old's kind, each     *)
(* with at least one entry, whose entries concatenated in output order are *)
(* old's entries in order.                                                 *)
(***************************************************************************)
C10_Split3KeepsEntries ==
  out # NoResult =>
    /\ out.n \in {1, 2, 3}
    /\ nbytes(inp.old) <= BTREE_PAGE_SIZE => out = [n |-> 1, nodes |-> <<inp.old>>]
    /\ nbytes(inp.old) > BTREE_PAGE_SIZE =>
         /\ SeqSum([i \in 1..out.n |-> NodeEntries(out.nodes[i])], out.n)
              = NodeEntries(inp.old)
         /\ \A i \in 1..out.n :
              out.nodes[i].btype = inp.old.btype /\ out.nodes[i].nkeys >= 1

(***************************************************************************)
(* C11  For every scratch node a builder leaves from a page-sized node by  *)
(* one insert, update or child replacement, split3 returns one to three    *)
(* nodes and every one of them has nbytes <= 4096: the second split2 on    *)
(* the left part suffices and the final check on leftleft does not fail.   *)
(***************************************************************************)
C11_Split3OutputsFit ==
  out # NoResult =>
    /\ out.n >= 1
    /\ \A i \in 1..out.n :
         nbytes(out.nodes[i]) >= 0 /\ nbytes(out.nodes[i]) <= BTREE_PAGE_SIZE

(***************************************************************************)
(* C12  Every buffer an Insert call hands to the page store's new is at    *)
(* most 4096 bytes long: no 2-page scratch buffer is stored as it is.      *)
(***************************************************************************)
\* the ids the last call allocated
NewIds == {log[i][2] : i \in {j \in 1..Len(log) : log[j][1] = "new"}}

C12_StoredBuffersOnePage ==
  last.done =>
    \A id \in NewIds \cap DOMAIN pages : pages[id].cap <= BTREE_PAGE_SIZE

(***************************************************************************)
(* C13  Within one Insert call tree.root is assigned exactly once, as the  *)
(* final step, after every load, free and allocation of the call.          *)
(* As stated this fails on the empty tree; what holds: on a non-empty tree *)
(* tree.root is assigned exactly once, as the final step of a completed    *)
(* call, and not at all by a call that fails; on the empty tree it is      *)
(* assigned twice, first to the empty leaf right after allocating it and   *)
(* before that leaf is loaded and freed, and last as the final step.       *)
(***************************************************************************)
\* the positions in the last call's log where tree.root is assigned
RootWrites == {i \in 1..Len(log) : log[i][1] = "root"}

C14_FailureLeavesFreedRoot ==
  (last.done /\ failed /\ last.root # 0 /\ Len(log) >= 1) =>
    /\ root = last.root
    /\ last.root \in DOMAIN last.pages
    /\ last.root \notin DOMAIN pages
    /\ log[1] = <<"get", last.root>>
    /\ log[2] = <<"del", last.root>>
    /\ RootWrites = {}

\* a call with valid arguments that failed below the root, after allocating
\* pages for a split child
C14_Witness ==
  /\ last.done
  /\ failed
  /\ last.root # 0
  /\ ValidArgs(last.key, last.val)
  /\ NewIds # {}

(* ---- getKey, getVal, getPtr ---- *)
\* a node whose entries all lie inside its buffer
FitsBuffer(node) == node # Panic /\ nbytes(node) >= 0 /\ nbytes(node) <= node.cap

CodecKeySeqs(max) ==
  {SortedSeq(S) : S \in {T \in SUBSET {Bytes(b, n) : b \in 1..NumCodecBytes, n \in KeyLens} :
                           Cardinality(T) <= max}}

\* every Leaf and Internal node the append builders write that fits its
\* buffer, with the entries written and an index up to count
InitCodec ==
  InitAlone(UNION {{[node |-> x.node, entries |-> x.entries, idx |-> i] :
                      i \in 0..x.node.nkeys} :
                   x \in {y \in UNION {{[node |-> MakeLeaf(es), entries |-> es] :
                                          es \in EntrySeqs(ks)} :
                                       ks \in CodecKeySeqs(MaxNodeKeys)}
                                 \cup {[node |-> MakeInternal(ks),
                                        entries |-> [i \in 1..Len(ks) |-> <<ks[i], EmptyBytes>>]] :
                                         ks \in CodecKeySeqs(MaxNodeKeys)} :
                            FitsBuffer(y.node)}})

ApplyGet ==
  /\ out = NoResult
  /\ out' = [key |-> getKey(inp.node, inp.idx),
             val |-> getVal(inp.node, inp.idx),
             ptr |-> getPtr(inp.node, inp.idx)]
  /\ UNCHANGED <<root, pages, next, idhi, failed, log, last, ref, ninserts, inp>>

SpecCodec == InitCodec /\ [][ApplyGet]_vars

(***************************************************************************)
(* C15  getKey and getVal fail when idx >= count, and getPtr fails when    *)
(* idx is past the pointer array: none of them returns data for such an    *)
(* index.                                                                  *)
(***************************************************************************)
C15_AccessorsBoundsChecked ==
  out # NoResult =>
    /\ inp.idx >= inp.node.nkeys => out.key = NoBytes /\ out.val = NoBytes
    /\ inp.idx >= ptrSlots(inp.node) => out.ptr = BadPtr

WithoutTwo(ks, j) == [i \in 1..(Len(ks) - 2) |-> IF i < j THEN ks[i] ELSE ks[i + 2]]

\* the pointers handed in for the new children
NewKidA == LowPtr(101)
NewKidB == LowPtr(102)
NewKidD == LowPtr(103)

\* every page-sized Internal node with at least one key and children 1..c+1,
\* every child index idx in 0..c, and separators sep1 < sep2 lying strictly
\* between key idx-1 and key idx
InitReplace ==
  InitAlone({x \in UNION {{[old |-> MakeInternal(WithoutTwo(ks, j)), idx |-> j - 1,
                            sep1 |-> ks[j], sep2 |-> ks[j + 1]] :
                             j \in 1..(Len(ks) - 1)} :
                          ks \in {s \in KeySeqs(MaxNodeKeys + 2) : Len(s) >= 3}} :
               FitsBuffer(x.old) /\ nbytes(x.old) <= BTREE_PAGE_SIZE})

ApplyReplace2 ==
  /\ out = NoResult
  /\ out' = [op |-> "replace2",
             node |-> nodeReplace2kid(MakeBuf(2 * BTREE_PAGE_SIZE), inp.old, inp.idx,
                                      NewKidA, inp.sep1, NewKidB)]
  /\ UNCHANGED <<root, pages, next, idhi, failed, log, last, ref, ninserts, inp>>

ApplyReplace3 ==
  /\ out = NoResult
  /\ out' = [op |-> "replace3",
             node |-> nodeReplace3kid(MakeBuf(2 * BTREE_PAGE_SIZE), inp.old, inp.idx,
                                      NewKidA, inp.sep1, NewKidB, inp.sep2, NewKidD)]
  /\ UNCHANGED <<root, pages, next, idhi, failed, log, last, ref, ninserts, inp>>

NextReplace == ApplyReplace2 \/ ApplyReplace3

SpecReplace == InitReplace /\ [][NextReplace]_vars

\* the pointers and the keys of an Internal node as the accessors read them
PtrsOf(node) == [i \in 1..(node.nkeys + 1) |-> getPtr(node, i - 1)]
KeysIn(node) == [i \in 1..node.nkeys |-> getKey(node, i - 1)]

(***************************************************************************)
(* C17  For an internal node with keys k[0..c-1] and pointers p[0..c] and  *)
(* every idx in 0..c, the rightmost child idx = c and the child idx = c-1  *)
(* included, replacing child idx by two children a, b with separator sep   *)
(* yields an internal node with c+1 keys k[0..idx-1], sep, k[idx..c-1] and *)
(* c+2 pointers p[0..idx-1], a, b, p[idx+1..c]: no other pointer of the    *)
(* original is dropped or zeroed.                                          *)
(***************************************************************************)
C17_ReplaceTwoChildren ==
  (out # NoResult /\ out.op = "replace2") =>
    LET c == inp.old.nkeys
        p == PtrsOf(inp.old)
        k == KeysIn(inp.old)
    IN /\ out.node # Panic
       /\ out.node.btype = BNODE_INTERNAL
       /\ out.node.nkeys = c + 1
       /\ PtrsOf(out.node) =
            [i \in 1..(c + 2) |-> IF i <= inp.idx THEN p[i]
                                  ELSE IF i = inp.idx + 1 THEN NewKidA
                                  ELSE IF i = inp.idx + 2 THEN NewKidB
                                  ELSE p[i - 1]]
       /\ KeysIn(out.node) =
            [i \in 1..(c + 1) |-> IF i <= inp.idx THEN k[i]
                                  ELSE IF i = inp.idx + 1 THEN inp.sep1
                                  ELSE k[i - 1]]

(***************************************************************************)
(* C18  For an internal node with keys k[0..c-1] and pointers p[0..c] and  *)
(* every idx in 0..c, replacing child idx by three children a, b, d with   *)
(* separators sep1, sep2 yields an internal node with c+2 keys             *)
(* k[0..idx-1], sep1, sep2, k[idx..c-1], still strictly increasing, and    *)
(* c+3 pointers p[0..idx-1], a, b, d, p[idx+1..c].                         *)
(***************************************************************************)
C18_ReplaceThreeChildren ==
  (out # NoResult /\ out.op = "replace3") =>
    LET c == inp.old.nkeys
        p == PtrsOf(inp.old)
        k == KeysIn(inp.old)
    IN /\ out.node # Panic
       /\ out.node.btype = BNODE_INTERNAL
       /\ out.node.nkeys = c + 2
       /\ PtrsOf(out.node) =
            [i \in 1..(c + 3) |-> IF i <= inp.idx THEN p[i]
                                  ELSE IF i = inp.idx + 1 THEN NewKidA
                                  ELSE IF i = inp.idx + 2 THEN NewKidB
                                  ELSE IF i = inp.idx + 3 THEN NewKidD
                                  ELSE p[i - 2]]
       /\ KeysIn(out.node) =
            [i \in 1..(c + 2) |-> IF i <= inp.idx THEN k[i]
                                  ELSE IF i = inp.idx + 1 THEN inp.sep1
                                  ELSE IF i = inp.idx + 2 THEN inp.sep2
                                  ELSE k[i - 2]]
       /\ \A i \in 1..(c + 1) :
            KeyCmp(getKey(out.node, i - 1), getKey(out.node, i)) < 0

(* ---- nodeSplit2 ---- *)
\* every scratch Leaf and scratch Internal node with at least two strictly
\* increasing keys
InitSplit2 ==
  InitAlone({[old |-> nd] :
               nd \in {x \in UNION {{MakeLeaf(es) : es \in EntrySeqs(ks)} :
                                      ks \in KeySeqs(MaxNodeKeys)}
                               \cup {MakeInternal(ks) : ks \in KeySeqs(MaxNodeKeys + 1)} :
                          IsScratch(x) /\ x.nkeys >= 2}})

\* split2 on the two one-page buffers nodeSplit3 hands it
ApplySplit2 ==
  /\ out = NoResult
  /\ out' = [s |-> SplitPoint(inp.old, inp.old.nkeys \div 2),
             nodes |-> nodeSplit2(MakeBuf(BTREE_PAGE_SIZE), MakeBuf(BTREE_PAGE_SIZE),
                                  inp.old)]
  /\ UNCHANGED <<root, pages, next, idhi, failed, log, last, ref, ninserts, inp>>

SpecSplit2 == InitSplit2 /\ [][ApplySplit2]_vars

\* the encoded size of a node of old's kind holding old's entries from t on
RightSize(old, t) ==
  4 + 8 * ptrSlotsOf(old.btype, old.nkeys - t) + 2 * (old.nkeys - t)
    + (EntryBytes(old, old.nkeys) - EntryBytes(old, t))

(***************************************************************************)
(* C19  split2 on a node with count >= 2 takes a split point s with        *)
(* 1 <= s <= count-1 that starts at count/2 and moves right only while the *)
(* right part is larger than a page, and builds left = entries [0, s) and  *)
(* right = entries [s, count), both of old's kind and non-empty, with      *)
(* right.nbytes <= 4096.                                                   *)
(***************************************************************************)
C19_Split2 ==
  out # NoResult =>
    LET c == inp.old.nkeys
        all == NodeEntries(inp.old)
        left == out.nodes[1]
        right == out.nodes[2]
    IN /\ out.s >= 1 /\ out.s <= c - 1
       /\ out.s >= c \div 2
       /\ \A t \in (c \div 2)..(out.s - 1) : RightSize(inp.old, t) > BTREE_PAGE_SIZE
       /\ left # Panic /\ right # Panic
       /\ left.btype = inp.old.btype /\ right.btype = inp.old.btype
       /\ left.nkeys = out.s /\ right.nkeys = c - out.s
       /\ NodeEntries(left) = [i \in 1..out.s |-> all[i]]
       /\ NodeEntries(right) = [i \in 1..(c - out.s) |-> all[out.s + i]]
       /\ nbytes(right) >= 0 /\ nbytes(right) <= BTREE_PAGE_SIZE

(***************************************************************************)
(* C20  When the split3 at the top of Insert returns n in {2, 3}, Insert   *)
(* installs a new Internal root with n-1 keys and n pointers; pointer i    *)
(* reads back as exactly the id the store returned for output node i, and  *)
(* key i is the first key of output node i+1.                              *)
(***************************************************************************)
\* the id allocated for output node i of the last call's top-level split:
\* the n outputs are allocated in order, right before the new root
RootKid(i) == root - last.nsplit + i

C20_NewRootOnSplit ==
  (Completed /\ last.nsplit \in {2, 3}) =>
    /\ root \in DOMAIN pages
    /\ pages[root].btype = BNODE_INTERNAL
    /\ pages[root].nkeys = last.nsplit - 1
    /\ \A i \in 0..(last.nsplit - 1) :
         /\ RootKid(i) \in NewIds \cap DOMAIN pages
         /\ getPtr(pages[root], i) = Ptr(RootKid(i))
    /\ \A i \in 0..(last.nsplit - 2) :
         getKey(pages[root], i) = getKey(pages[RootKid(i + 1)], 0)

(***************************************************************************)
(* C21  One completed Insert leaves the height of the tree unchanged when  *)
(* its top-level split3 returns 1 and raises it by exactly one when that   *)
(* split3 returns 2 or 3; a split below the root does not change the       *)
(* height, and the height never decreases.                                 *)
(***************************************************************************)
\* the heights seen from the root before the last call: the empty tree
\* starts from the empty leaf the call creates
PrevDepths == IF last.root = 0 THEN {0} ELSE LeafDepths(last.pages, last.root)

C21_HeightGrowsOnlyAtRootSplit ==
  Completed =>
    /\ last.nsplit \in {1, 2, 3}
    /\ LeafDepths(pages, root) # {}
    /\ LeafDepths(pages, root) =
         {d + (IF last.nsplit = 1 THEN 0 ELSE 1) : d \in PrevDepths}

\* a root split that takes a two-level tree to three levels
C21_Witness ==
  /\ Completed
  /\ last.nsplit = 2
  /\ PrevDepths = {1}
  /\ LeafDepths(pages, root) = {2}
  /\ Cardinality(NewIds) >= 5

(* ---- the builders on the buffers they are handed ---- *)
\* the buffers of one call in the order they are made; buffer 1 is the
\* source node, make() adds a zeroed buffer after the ones there are
MakeIn(heap, cap) == Append(heap, MakeBuf(cap))

\* what a builder wrote lands in the source
WriteBuf_IntoSource(heap, t, node) == [heap EXCEPT ![1] = node]

\* what a builder wrote, left in the buffer it was handed as its target
WriteBuf(heap, t, node) == [heap EXCEPT ![t] = node]

\* nodeSplit2 with left, right and old being buffers l, r and o
Split2In(heap, l, r, o) ==
  LET Put(s) == WriteBuf(WriteBuf(heap, l, s[1]), r, s[2])
  IN Put(nodeSplit2(heap[l], heap[r], heap[o]))

\* nodeSplit3 past its first return: left and right made and filled, then
\* leftleft and middle when left is larger than a page
Split3In(heap) ==
  LET Again(h) ==
        IF h[2] = Panic \/ (nbytes(h[2]) >= 0 /\ nbytes(h[2]) <= BTREE_PAGE_SIZE) THEN h
        ELSE Split2In(MakeIn(MakeIn(h, BTREE_PAGE_SIZE), BTREE_PAGE_SIZE), 4, 5, 2)
  IN Again(Split2In(MakeIn(MakeIn(heap, BTREE_PAGE_SIZE), BTREE_PAGE_SIZE), 2, 3, 1))

BuildKeys == {Bytes(b, n) : b \in 1..NumBuildBytes, n \in KeyLens}

\* the strictly increasing sequences of at most max of these keys
BuildKeySeqs(max) ==
  {SortedSeq(S) : S \in {T \in SUBSET BuildKeys : Cardinality(T) <= max}}

\* every page-sized Leaf with an index up to its count, a key and a value;
\* every page-sized Internal node with a child index and two separators
\* that belong between the keys around that child; every scratch node of
\* two or more keys
InitBuild ==
  InitAlone(
    {x \in {[kind |-> "leaf", old |-> l, idx |-> i, key |-> k, val |-> v,
             sep1 |-> EmptyBytes, sep2 |-> EmptyBytes] :
              l \in {y \in UNION {{MakeLeaf(es) : es \in EntrySeqs(ks)} :
                                    ks \in BuildKeySeqs(MaxBuildKeys)} :
                       FitsBuffer(y) /\ nbytes(y) <= BTREE_PAGE_SIZE},
              i \in 0..MaxBuildKeys, k \in BuildKeys, v \in ValidVals} :
       x.idx <= x.old.nkeys}
    \cup
    {x \in UNION {{[kind |-> "internal", old |-> MakeInternal(WithoutTwo(ks, j)), idx |-> j - 1,
                    key |-> EmptyBytes, val |-> EmptyBytes,
                    sep1 |-> ks[j], sep2 |-> ks[j + 1]] :
                     j \in 1..(Len(ks) - 1)} :
                  ks \in {s \in BuildKeySeqs(MaxBuildKeys + 2) : Len(s) >= 3}} :
       FitsBuffer(x.old) /\ nbytes(x.old) <= BTREE_PAGE_SIZE}
    \cup
    {[kind |-> "scratch", old |-> nd, idx |-> 0, key |-> EmptyBytes, val |-> EmptyBytes,
      sep1 |-> EmptyBytes, sep2 |-> EmptyBytes] :
       nd \in {x \in UNION {{MakeLeaf(es) : es \in EntrySeqs(ks)} :
                              ks \in BuildKeySeqs(MaxBuildKeys)}
                       \cup {MakeInternal(ks) : ks \in BuildKeySeqs(MaxBuildKeys + 1)} :
                  IsScratch(x) /\ x.nkeys >= 2}})

\* the call of a builder that fills one scratch buffer from the source
BuildOne(op, node) ==
  /\ out = NoResult
  /\ out' = [op |-> op, heap |-> node]
  /\ UNCHANGED <<root, pages, next, idhi, failed, log, last, ref, ninserts, inp>>

Scratch(old) == MakeIn(<<old>>, 2 * BTREE_PAGE_SIZE)

BuildLeafInsert ==
  /\ inp.kind = "leaf"
  /\ \A i \in 0..(inp.old.nkeys - 1) : getKey(inp.old, i) # inp.key
  /\ BuildOne("leafInsert",
              WriteBuf(Scratch(inp.old), 2,
                       leafInsert(Scratch(inp.old)[2], Scratch(inp.old)[1],
                                  inp.idx, inp.key, inp.val)))

BuildLeafUpdate ==
  /\ inp.kind = "leaf"
  /\ inp.idx < inp.old.nkeys
  /\ BuildOne("leafUpdate",
              WriteBuf(Scratch(inp.old), 2,
                       leafUpdate(Scratch(inp.old)[2], Scratch(inp.old)[1],
                                  inp.idx, inp.key, inp.val)))

\* case 1 of nodeInsert: the parent copied and pointer idx set
BuildReplace1 ==
  /\ inp.kind = "internal"
  /\ BuildOne("replace1",
              WriteBuf(Scratch(inp.old), 2,
                       setPtr(internalAppendRange(
                                setHeader(Scratch(inp.old)[2], BNODE_INTERNAL, inp.old.nkeys),
                                Scratch(inp.old)[1], 0, 0, inp.old.nkeys),
                              inp.idx, NewKidA)))

BuildReplace2 ==
  /\ inp.kind = "internal"
  /\ BuildOne("replace2",
              WriteBuf(Scratch(inp.old), 2,
                       nodeReplace2kid(Scratch(inp.old)[2], Scratch(inp.old)[1], inp.idx,
                                       NewKidA, inp.sep1, NewKidB)))

BuildReplace3 ==
  /\ inp.kind = "internal"
  /\ BuildOne("replace3",
              WriteBuf(Scratch(inp.old), 2,
                       nodeReplace3kid(Scratch(inp.old)[2], Scratch(inp.old)[1], inp.idx,
                                       NewKidA, inp.sep1, NewKidB, inp.sep2, NewKidD)))

BuildSplit2 ==
  /\ inp.kind = "scratch"
  /\ BuildOne("split2",
              Split2In(MakeIn(MakeIn(<<inp.old>>, BTREE_PAGE_SIZE), BTREE_PAGE_SIZE), 2, 3, 1))

BuildSplit3 ==
  /\ inp.kind = "scratch"
  /\ nbytes(inp.old) > BTREE_PAGE_SIZE
  /\ BuildOne("split3", Split3In(<<inp.old>>))

NextBuild ==
  \/ BuildLeafInsert
  \/ BuildLeafUpdate
  \/ BuildReplace1
  \/ BuildReplace2
  \/ BuildReplace3
  \/ BuildSplit2
  \/ BuildSplit3

SpecBuild == InitBuild /\ [][NextBuild]_vars

LogPos(kind) == {i \in 1..Len(log) : log[i][1] = kind}

\* the loads made by nodeInsert: every load but the first, that of the root
ChildGets == {i \in LogPos("get") : \E j \in LogPos("get") : j < i}

DelsOf(k) == {j \in LogPos("del") : log[j][2] = k}

\* how many allocations follow position j without another call in between
NewRun(j) ==
  Cardinality({p \in (j + 1)..Len(log) : \A q \in (j + 1)..p : log[q][1] = "new"})

\* the allocations BTree.Insert makes itself at the end of a completed call
RootNews == IF last.nsplit = 1 THEN 1 ELSE last.nsplit + 1

\* the ids allocated for the replacement children after the free at j; the
\* allocations of BTree.Insert follow those of the topmost nodeInsert
KidIds(j) ==
  LET run == NewRun(j)
      n == IF j + run + 1 <= Len(log) /\ log[j + run + 1][1] = "root"
             THEN run - RootNews ELSE run
  IN {log[p][2] : p \in (j + 1)..(j + n)}

C23_ChildFreedThenReplaced ==
  last.done =>
    \A i \in ChildGets :
      /\ Cardinality(DelsOf(log[i][2])) <= 1
      /\ ~failed => DelsOf(log[i][2]) # {}
      /\ \A p \in LogPos("new") :
           p > i => \E q \in (i + 1)..(p - 1) : log[q][1] = "del"
      /\ \A j \in DelsOf(log[i][2]) :
           /\ j > i
           /\ log[i][2] \in DOMAIN last.pages
           /\ \A p \in (i + 1)..(j - 1) :
                /\ log[p][1] # "root"
                /\ log[p][1] = "get" =>
                     \E q \in (p + 1)..(j - 1) : log[q] = <<"del", log[p][2]>>
                /\ log[p][1] = "new" =>
                     \E q \in (i + 1)..(p - 1) : log[q][1] = "del"
           /\ ~failed =>
                /\ Cardinality(KidIds(j)) \in {1, 2, 3}
                /\ \A x \in KidIds(j) :
                     \E p \in NewIds \cap DOMAIN pages :
                       /\ pages[p].btype = BNODE_INTERNAL
                       /\ \E s \in 0..pages[p].nkeys : getPtr(pages[p], s) = Ptr(x)

\* an insert below an internal root whose leaf split in two while the root
\* did not
C23_Witness ==
  /\ Completed
  /\ last.nsplit = 1
  /\ Cardinality(ChildGets) = 1
  /\ \E i \in ChildGets : \E j \in DelsOf(log[i][2]) : Cardinality(KidIds(j)) = 2

(***************************************************************************)
(* C24  leafInsert at any idx in 0..count, the key being absent from the   *)
(* source, builds a Leaf of count+1 entries: the source's entries          *)
(* [0, idx), then (key, val), then the source's entries [idx, count), each *)
(* key and value as in the source.  leafUpdate at idx < count builds a     *)
(* Leaf of the same count in which only entry idx differs and carries      *)
(* (key, val), whatever the length of the new value.                       *)
(***************************************************************************)
C24_LeafInsertAndUpdate ==
  (out # NoResult /\ out.op \in {"leafInsert", "leafUpdate"}) =>
    LET c == inp.old.nkeys
        src == NodeEntries(inp.old)
        new == out.heap[2]
    IN /\ new # Panic
       /\ new.btype = BNODE_LEAF
       /\ out.op = "leafInsert" =>
            /\ new.nkeys = c + 1
            /\ NodeEntries(new) =
                 [i \in 1..(c + 1) |-> IF i <= inp.idx THEN src[i]
                                       ELSE IF i = inp.idx + 1 THEN <<inp.key, inp.val>>
                                       ELSE src[i - 1]]
       /\ out.op = "leafUpdate" =>
            /\ new.nkeys = c
            /\ NodeEntries(new) =
                 [i \in 1..c |-> IF i = inp.idx + 1 THEN <<inp.key, inp.val>> ELSE src[i]]

\* an update of the middle entry of three that replaces an empty value by
\* one of 3000 bytes
C24_Witness ==
  /\ out # NoResult
  /\ out.op = "leafUpdate"
  /\ inp.old.nkeys = 3
  /\ inp.idx = 1
  /\ getVal(inp.old, 1) = EmptyBytes
  /\ getVal(out.heap[2], 1).n = BTREE_MAX_VAL_SIZE
  /\ getVal(out.heap[2], 2) = getVal(inp.old, 2)

(***************************************************************************)
(* C25  When the child rebuilt by the recursive insert does not split, the *)
(* rebuilt internal node has the same count and the same separator keys in *)
(* the same order as before, and the same child pointers at every index    *)
(* except idx, which holds the id freshly allocated for the rebuilt child. *)
(***************************************************************************)
\* the id of the node whose nodeInsert made the load at position i: the one
\* loaded just before, past the free of the root
ParentOf(i) == IF log[i - 1][1] = "get" THEN log[i - 1][2] ELSE log[i - 2][2]

\* the ids under which the node rebuilt from page id was stored: those
\* allocated after its free when it is a child, the new root otherwise
StoredAs(id) ==
  IF \E i \in ChildGets : log[i][2] = id
    THEN UNION {KidIds(j) : j \in DelsOf(id)}
  ELSE IF last.nsplit = 1 THEN {root} ELSE {}

C25_OneChildReplaced ==
  Completed =>
    \A i \in ChildGets :
      \A j \in DelsOf(log[i][2]) :
        Cardinality(KidIds(j)) = 1 =>
          \E q \in StoredAs(ParentOf(i)) :
            LET old == last.pages[ParentOf(i)]
                new == pages[q]
            IN /\ StoredAs(ParentOf(i)) = {q}
               /\ new.btype = BNODE_INTERNAL
               /\ new.nkeys = old.nkeys
               /\ KeysIn(new) = KeysIn(old)
               /\ \E idx \in 0..old.nkeys :
                    /\ getPtr(old, idx) = Ptr(log[i][2])
                    /\ getPtr(new, idx) \in {Ptr(x) : x \in KidIds(j)}
                    /\ \A s \in 0..old.nkeys :
                         s # idx => getPtr(new, s) = getPtr(old, s)

\* an update below two internal levels: both the leaf and its parent were
\* replaced by one page each
C25_Witness ==
  /\ Completed
  /\ Cardinality(ChildGets) = 2
  /\ \A i \in ChildGets : \E j \in DelsOf(log[i][2]) : Cardinality(KidIds(j)) = 1
  /\ pages[root].nkeys >= 1

(***************************************************************************)
(* C26  After every completed Insert the pages live in the store are       *)
(* exactly the pages reachable from tree.root, every pointer of a          *)
(* reachable internal node names a live page, and every reachable page     *)
(* but the root is named by exactly one pointer slot of one internal node. *)
(***************************************************************************)
\* the pointer slots of reachable internal nodes that name page id
SlotsNaming(id) ==
  {ps \in Reach(pages, root) \X (0..(MaxNodeKeys + 2)) :
     /\ pages[ps[1]].btype = BNODE_INTERNAL
     /\ ps[2] <= pages[ps[1]].nkeys
     /\ getPtr(pages[ps[1]], ps[2]) = Ptr(id)}

C26_LiveEqualsReachable ==
  Completed =>
    /\ DOMAIN pages = Reach(pages, root)
    /\ \A p \in Reach(pages, root) :
         pages[p].btype = BNODE_INTERNAL =>
           \A s \in 0..pages[p].nkeys : IdOf(getPtr(pages[p], s)) \in DOMAIN pages
    /\ \A id \in Reach(pages, root) \ {root} : Cardinality(SlotsNaming(id)) = 1

(***************************************************************************)
(* C27  No Insert call with a key of 1 to 1000 bytes and a value of at     *)
(* most 3000 bytes panics: no assertion fails, no node of an invalid kind  *)
(* is met and no unknown page id is loaded, whatever was inserted before.  *)
(***************************************************************************)
C27_ValidInsertsNeverPanic ==
  (last.done /\ ValidArgs(last.key, last.val)) => ~failed

(***************************************************************************)
(* C28  Every write made while building a node stays inside that node's    *)
(* buffer: the builders treeInsert calls fill their 2-page scratch buffer  *)
(* without leaving it, and split2 called from split3 writes no entry, or   *)
(* part of one, past the 4096-byte buffers split3 makes for left, right,   *)
(* leftleft and middle, so that no entry of an output node is cut.         *)
(***************************************************************************)
\* the calls the claim is about: the builders on a scratch buffer (the
\* two-children builder where its assertion on idx lets it run) and the
\* splits of a node larger than a page
WritesChecked ==
  \/ out.op \in {"leafInsert", "leafUpdate", "replace1"}
  \/ out.op = "replace2" /\ inp.idx < inp.old.nkeys
  \/ out.op \in {"split2", "split3"} /\ nbytes(inp.old) > BTREE_PAGE_SIZE

C28_WritesStayInside ==
  (out # NoResult /\ WritesChecked) =>
    \A t \in 2..Len(out.heap) : FitsBuffer(out.heap[t])

(***************************************************************************)
(* C29  One completed Insert on a non-empty tree loads and frees exactly   *)
(* the pages of one path from the root to a leaf, one page per level and   *)
(* each freed exactly once; it frees no other page, and every page off     *)
(* that path stays live with the bytes it held.                            *)
(***************************************************************************)
\* the ids the last call loaded
Loaded == {log[i][2] : i \in LogPos("get")}

C29_OnePathLoadedAndFreed ==
  (Completed /\ last.root # 0) =>
    /\ log[1] = <<"get", last.root>>
    /\ Loaded \subseteq DOMAIN last.pages
    /\ Cardinality(Loaded) = Cardinality(LogPos("get"))
    /\ LeafDepths(last.pages, last.root) = {Cardinality(Loaded) - 1}
    /\ \A i \in LogPos("get") :
         /\ Cardinality(DelsOf(log[i][2])) = 1
         /\ last.pages[log[i][2]].btype =
              (IF \E j \in LogPos("get") : j > i THEN BNODE_INTERNAL ELSE BNODE_LEAF)
    /\ \A i \in ChildGets :
         \E s \in 0..last.pages[ParentOf(i)].nkeys :
           getPtr(last.pages[ParentOf(i)], s) = Ptr(log[i][2])
    /\ \A j \in LogPos("del") : log[j][2] \in Loaded
    /\ \A id \in Loaded : id \notin DOMAIN pages
    /\ \A id \in DOMAIN last.pages \ Loaded :
         id \in DOMAIN pages /\ pages[id] = last.pages[id]

\* an insert into a tree of three levels with pages off the path
C29_Witness ==
  /\ Completed
  /\ Cardinality(Loaded) = 3
  /\ Cardinality(DOMAIN last.pages \ Loaded) >= 2
  /\ DOMAIN last.pages \ Loaded \subseteq DOMAIN pages

(* ---- entry 0 written into a node whose pointers are set ---- *)
\* a page id with its top 16 bits set
HighPtr(id) == <<1, id>>

RECURSIVE SetPtrs(_, _, _)
\* pointer i of node set to ptrs[i + 1] for i < n
SetPtrs(node, ptrs, n) ==
  IF n = 0 THEN node ELSE setPtr(SetPtrs(node, ptrs, n - 1), n - 1, ptrs[n])

\* every one-page Internal node of 1 to MaxNodeKeys keys with its header
\* and all its pointers written, as BTree.Insert prepares a new root, and
\* every Leaf with its header written; with the first key and value
InitEntry0 ==
  InitAlone(
    {[node |-> SetPtrs(setHeader(MakeBuf(BTREE_PAGE_SIZE), BNODE_INTERNAL, Len(ps) - 1),
                       ps, Len(ps)),
      key |-> k, val |-> EmptyBytes] :
       ps \in UNION {[1..(n + 1) -> {LowPtr(1), HighPtr(2)}] : n \in 1..MaxNodeKeys},
       k \in BuildKeys}
    \cup
    {[node |-> setHeader(MakeBuf(BTREE_PAGE_SIZE), BNODE_LEAF, n), key |-> k, val |-> v] :
       n \in 1..MaxNodeKeys, k \in BuildKeys, v \in ValidVals})

InternalEntry0 ==
  /\ out = NoResult
  /\ inp.node.btype = BNODE_INTERNAL
  /\ out' = [node |-> internalAppendKv(inp.node, 0, inp.key)]
  /\ UNCHANGED <<root, pages, next, idhi, failed, log, last, ref, ninserts, inp>>

LeafEntry0 ==
  /\ out = NoResult
  /\ inp.node.btype = BNODE_LEAF
  /\ out' = [node |-> leafAppendKv(inp.node, 0, inp.key, inp.val)]
  /\ UNCHANGED <<root, pages, next, idhi, failed, log, last, ref, ninserts, inp>>

NextEntry0 == InternalEntry0 \/ LeafEntry0

SpecEntry0 == InitEntry0 /\ [][NextEntry0]_vars

(***************************************************************************)
(* C30  The offset of entry 0 is never stored: writing entry 0 of a Leaf   *)
(* or Internal node changes neither the header nor any slot of the pointer *)
(* array, so every child pointer written before, whatever its 64 bits,     *)
(* reads back as written.                                                  *)
(***************************************************************************)
C30_Entry0KeepsHeaderAndPointers ==
  out # NoResult =>
    /\ out.node # Panic
    /\ out.node.btype = inp.node.btype
    /\ out.node.nkeys = inp.node.nkeys
    /\ \A i \in 0..(ptrSlots(inp.node) - 1) :
         getPtr(out.node, i) = getPtr(inp.node, i)

====
